---- MODULE Spec2Model ----
(***************************************************************************)
(* Verification model of the three HTTP services of the repository:        *)
(*   api_gateway/index.js    - rate limit, request id, verifyJWT, proxy    *)
(*   service_users/index.js  - register, login, profile, admin user list   *)
(*   service_orders/index.js - create / get / list / patch orders          *)
(* and of the relational store they share (database/init.sql).             *)
(*                                                                         *)
(* Strings are modelled as strings: paths, Authorization header values and *)
(* compact JWTs are TLA+ strings, split and compared character by          *)
(* character as the JavaScript does.                                       *)
(***************************************************************************)
EXTENDS Integers, Sequences, FiniteSets, Bags, TLC

VARIABLES
  now,      \* wall clock in seconds, floor(Date.now() / 1000) as jsonwebtoken reads it
  users,    \* rows of table users
  orders,   \* rows of table orders
  pending,  \* handlers of the users service suspended at an await
  limiter,  \* the gateway's rate-limit store: key -> [count, resetAt]
  gw,       \* the gateway's handling of its last request
  resp      \* the last response a backend service sent

vars == << now, users, orders, pending, limiter, gw, resp >>

----------------------------------------------------------------------------
(* Bounds of the model *)

\* registrations stop once the table holds this many rows
MaxUsers == 3
\* order creation stops once the table holds this many rows
MaxOrders == 1
\* handlers of the users service that may be suspended at the same time
MaxPending == 2
\* seconds the sampled clock runs on from the last second of the life of a
\* token signed at instant 0
MaxLate == 2
\* gateway requests counted per client in one run of the model
MaxHits == 2
\* requests a client keeps sending in one window once the limiter's cap is used up
MaxOver == 2

----------------------------------------------------------------------------
(* Program constants *)

\* process.env.JWT_SECRET || "supersecret", the same default in all three services
JWT_SECRET_GATEWAY == "supersecret"
JWT_SECRET_USERS == "supersecret"
JWT_SECRET_ORDERS == "supersecret"

\* TOKEN_EXPIRES = "2h": jsonwebtoken turns the span into seconds, ms("2h") / 1000
TOKEN_EXPIRES == 7200

\* rateLimit({ windowMs: 60 * 1000, max: 200 })
RATE_WINDOW == 60
RATE_MAX == 200

publicPrefixes == << "/v1/users/register", "/v1/users/login", "/health" >>

----------------------------------------------------------------------------
(* JavaScript string primitives *)

\* String.prototype.startsWith
StartsWith(s, p) == Len(s) >= Len(p) /\ SubSeq(s, 1, Len(p)) = p

\* positions of the separator character in s
SepPositions(s, sep) == { i \in 1..Len(s) : SubSeq(s, i, i) = sep }

\* String.prototype.split with a one-character separator: the pieces between
\* consecutive separators, so "a  b" gives <<"a", "", "b">>, "a " gives
\* <<"a", "">> and "" gives <<"">>
Split(s, sep) ==
  LET pos == SepPositions(s, sep)
      n == Cardinality(pos)
      Kth(k) == IF k = 0 THEN 0
                ELSE IF k = n + 1 THEN Len(s) + 1
                ELSE CHOOSE p \in pos : Cardinality({ q \in pos : q < p }) = k - 1
  IN  [k \in 1..(n + 1) |-> SubSeq(s, Kth(k - 1) + 1, Kth(k) - 1)]

RECURSIVE Join(_, _)
\* Array.prototype.join
Join(parts, sep) ==
  IF Len(parts) = 0 THEN ""
  ELSE IF Len(parts) = 1 THEN parts[1]
  ELSE parts[1] \o sep \o Join(Tail(parts), sep)

Digits == << "0", "1", "2", "3", "4", "5", "6", "7", "8", "9" >>
IsDigit(c) == c \in { Digits[d] : d \in 1..10 }
DigitVal(c) == (CHOOSE d \in 1..10 : Digits[d] = c) - 1

IsNumeral(s) == Len(s) > 0 /\ \A i \in 1..Len(s) : IsDigit(SubSeq(s, i, i))

RECURSIVE ParseNat(_)
ParseNat(s) ==
  IF Len(s) = 0 THEN 0
  ELSE 10 * ParseNat(SubSeq(s, 1, Len(s) - 1)) + DigitVal(SubSeq(s, Len(s), Len(s)))

----------------------------------------------------------------------------
(* Optional values: a header, query parameter or body field that may be     *)
(* undefined is a sequence of length 0 (undefined) or 1 (the value).        *)

None == << >>
Some(v) == << v >>

\* JavaScript falsiness of an optional string: undefined or ""
Falsy(o) == o = None \/ o[1] = ""

\* o || dflt
OrElse(o, dflt) == IF Falsy(o) THEN dflt ELSE o[1]

----------------------------------------------------------------------------
(* jsonwebtoken: sign and verify, HS256.  The compact form                  *)
(* header.payload.signature is written here with ":" between the three     *)
(* parts and "|" between the payload's fields (e-mail addresses hold the    *)
(* "." of the real serialisation).                                          *)

\* HMAC of the signing input under a key: equal exactly for equal key and input
Hmac(key, data) == key \o "/" \o data

\* the payload object as text; a payload without a roles field writes "~"
JwtPayloadEncode(p) ==
  Join(<< ToString(p.id), p.email,
          IF "roles" \in DOMAIN p THEN Join(p.roles, ",") ELSE "~",
          ToString(p.iat), ToString(p.exp) >>, "|")

\* f: the payload text split at "|"
JwtPayloadWellFormed(f) ==
  Len(f) = 5 /\ IsNumeral(f[1]) /\ IsNumeral(f[4]) /\ IsNumeral(f[5])

JwtPayloadDecode(f) ==
  IF f[3] = "~"
  THEN [id |-> ParseNat(f[1]), email |-> f[2],
        iat |-> ParseNat(f[4]), exp |-> ParseNat(f[5])]
  ELSE [id |-> ParseNat(f[1]), email |-> f[2],
        roles |-> IF f[3] = "" THEN << >> ELSE Split(f[3], ","),
        iat |-> ParseNat(f[4]), exp |-> ParseNat(f[5])]

\* jwt.sign(claims, secret, { expiresIn }) at clock t: iat = t, exp = t + expiresIn
JwtSign(claims, secret, expiresIn, t) ==
  LET data == JwtPayloadEncode([id |-> claims.id, email |-> claims.email,
                                roles |-> claims.roles,
                                iat |-> t, exp |-> t + expiresIn])
  IN  Join(<< "HS256", data, Hmac(secret, data) >>, ":")

NoPayload == [none |-> TRUE]

\* jwt.verify(token, secret) at clock t: the payload, or the error it throws
JwtVerify(token, secret, t) ==
  LET parts == Split(token, ":")
      f == Split(parts[2], "|")
      payload == JwtPayloadDecode(f)
  IN  IF token = ""
        THEN [ok |-> FALSE, err |-> "jwt must be provided", payload |-> NoPayload]
      ELSE IF Len(parts) # 3
        THEN [ok |-> FALSE, err |-> "jwt malformed", payload |-> NoPayload]
      ELSE IF parts[1] # "HS256" \/ ~JwtPayloadWellFormed(f)
        THEN [ok |-> FALSE, err |-> "invalid token", payload |-> NoPayload]
      ELSE IF parts[3] # Hmac(secret, parts[2])
        THEN [ok |-> FALSE, err |-> "invalid signature", payload |-> NoPayload]
      ELSE IF t >= payload.exp
        THEN [ok |-> FALSE, err |-> "jwt expired", payload |-> NoPayload]
      ELSE [ok |-> TRUE, err |-> "", payload |-> payload]

----------------------------------------------------------------------------
(* The authorization guard, as each service writes it.  An outcome is       *)
(* [next, status, code, user]: next = TRUE when the middleware calls next() *)
(* (user is then req.user), else the error response it sent.                *)

Proceed(user) == [next |-> TRUE, status |-> 0, code |-> "", user |-> user]
Reject(status, code) == [next |-> FALSE, status |-> status, code |-> code, user |-> NoPayload]

\* api_gateway: isPublicPath
\* a gateway whose public list holds the whole /v1/users prefix
isPublicPathUsersWide(path) ==
  \E p \in { "/v1/users", "/health" } : path = p \/ StartsWith(path, p)

isPublicPath(path) ==
  \E i \in 1..Len(publicPrefixes) :
     path = publicPrefixes[i] \/ StartsWith(path, publicPrefixes[i])

\* api_gateway: verifyJWT; on a public path next() is called with no req.user
verifyJWT(path, auth, t) ==
  IF isPublicPath(path) THEN Proceed(NoPayload)
  ELSE IF Falsy(auth) THEN Reject(401, "AUTH_REQUIRED")
  ELSE LET parts == Split(auth[1], " ")
       IN  IF Len(parts) # 2 \/ parts[1] # "Bearer" THEN Reject(401, "AUTH_INVALID")
           ELSE LET v == JwtVerify(parts[2], JWT_SECRET_GATEWAY, t)
                IN  IF v.ok THEN Proceed(v.payload)
                    ELSE Reject(403, "AUTH_INVALID_TOKEN")

\* a users service that also turns away a token issued more than an hour ago
authMiddlewareUsersMaxAge(auth, t) ==
  IF Falsy(auth) THEN Reject(401, "AUTH_REQUIRED")
  ELSE LET parts == Split(auth[1], " ")
       IN  IF Len(parts) # 2 \/ parts[1] # "Bearer" THEN Reject(401, "AUTH_INVALID")
           ELSE LET v == JwtVerify(parts[2], JWT_SECRET_USERS, t)
                IN  IF v.ok /\ t < v.payload.iat + 3600 THEN Proceed(v.payload)
                    ELSE Reject(403, "AUTH_INVALID_TOKEN")

\* a users service that reads the payload without checking the signature,
\* as jwt.decode does
authMiddlewareUsersDecodeOnly(auth, t) ==
  IF Falsy(auth) THEN Reject(401, "AUTH_REQUIRED")
  ELSE LET parts == Split(auth[1], " ")
       IN  IF Len(parts) # 2 \/ parts[1] # "Bearer" THEN Reject(401, "AUTH_INVALID")
           ELSE LET seg == Split(parts[2], ":")
                    f == Split(seg[2], "|")
                IN  IF Len(seg) = 3 /\ JwtPayloadWellFormed(f)
                    THEN Proceed(JwtPayloadDecode(f))
                    ELSE Reject(403, "AUTH_INVALID_TOKEN")

\* service_users: authMiddleware
authMiddlewareUsers(auth, t) ==
  IF Falsy(auth) THEN Reject(401, "AUTH_REQUIRED")
  ELSE LET parts == Split(auth[1], " ")
       IN  IF Len(parts) # 2 \/ parts[1] # "Bearer" THEN Reject(401, "AUTH_INVALID")
           ELSE LET v == JwtVerify(parts[2], JWT_SECRET_USERS, t)
                IN  IF v.ok THEN Proceed(v.payload)
                    ELSE Reject(403, "AUTH_INVALID_TOKEN")

\* an orders service that answers a failed verification with 401
authMiddlewareOrdersUnauthorized(auth, t) ==
  IF Falsy(auth) THEN Reject(401, "AUTH_REQUIRED")
  ELSE LET parts == Split(auth[1], " ")
       IN  IF Len(parts) # 2 \/ parts[1] # "Bearer" THEN Reject(401, "AUTH_INVALID")
           ELSE LET v == JwtVerify(parts[2], JWT_SECRET_ORDERS, t)
                IN  IF v.ok THEN Proceed(v.payload)
                    ELSE Reject(401, "AUTH_INVALID_TOKEN")

\* an orders service deployed with a secret of its own
authMiddlewareOrdersOwnSecret(auth, t) ==
  IF Falsy(auth) THEN Reject(401, "AUTH_REQUIRED")
  ELSE LET parts == Split(auth[1], " ")
       IN  IF Len(parts) # 2 \/ parts[1] # "Bearer" THEN Reject(401, "AUTH_INVALID")
           ELSE LET v == JwtVerify(parts[2], "orders-secret", t)
                IN  IF v.ok THEN Proceed(v.payload)
                    ELSE Reject(403, "AUTH_INVALID_TOKEN")

\* service_orders: authMiddleware
authMiddlewareOrders(auth, t) ==
  IF Falsy(auth) THEN Reject(401, "AUTH_REQUIRED")
  ELSE LET parts == Split(auth[1], " ")
       IN  IF Len(parts) # 2 \/ parts[1] # "Bearer" THEN Reject(401, "AUTH_INVALID")
           ELSE LET v == JwtVerify(parts[2], JWT_SECRET_ORDERS, t)
                IN  IF v.ok THEN Proceed(v.payload)
                    ELSE Reject(403, "AUTH_INVALID_TOKEN")

\* service_orders: the app.use that lets /health through and guards the rest
ordersGuard(path, auth, t) ==
  IF path = "/health" THEN Proceed(NoPayload) ELSE authMiddlewareOrders(auth, t)


----------------------------------------------------------------------------
(* database/init.sql: the store.  Rows carry the columns the services read  *)
(* and write; identifiers are numbered in order of insertion where the      *)
(* schema draws a random UUID.                                              *)

\* gen_random_uuid(): an identifier no row of the table holds
FreshId(rows) == Cardinality(rows) + 1

\* a users table created without UNIQUE on email
usersInsertNoUnique(U, email, password, name, roles) ==
  LET row == [id |-> FreshId(U), email |-> email, password |-> password,
              name |-> name, roles |-> roles]
  IN  [err |-> "", rows |-> U \cup { row }, row |-> row]

\* INSERT INTO users: email TEXT NOT NULL UNIQUE raises 23505 on a duplicate
usersInsert(U, email, password, name, roles) ==
  LET row == [id |-> FreshId(U), email |-> email, password |-> password,
              name |-> name, roles |-> roles]
  IN  IF \E r \in U : r.email = email
      THEN [err |-> "23505", rows |-> U, row |-> row]
      ELSE [err |-> "", rows |-> U \cup { row }, row |-> row]

\* INSERT INTO orders
ordersInsert(O, user_id, items, status, total) ==
  LET row == [id |-> FreshId(O), user_id |-> user_id, items |-> items,
              status |-> status, total |-> total]
  IN  [rows |-> O \cup { row }, row |-> row]

\* CREATE TYPE order_status AS ENUM
order_status == { "created", "in_progress", "completed", "cancelled" }

\* bcryptjs: hash and compare (the salt is left out: one hash per password)
bcryptHash(password) == "$2a$10$" \o password
bcryptCompare(password, hash) == hash = bcryptHash(password)

----------------------------------------------------------------------------
(* Joi schemas.  A body is a function from its keys to its values; a key    *)
(* the schema does not name is an error, as Joi's default is.               *)

Has(body, key) == key \in DOMAIN body

\* Joi.string().email(): one "@", a local part, a domain with a dot in it
IsEmail(s) ==
  LET at == SepPositions(s, "@")
  IN  /\ Cardinality(at) = 1
      /\ \E i \in at : /\ i > 1
                       /\ \E j \in SepPositions(s, ".") : j > i + 1 /\ j < Len(s)

\* service_users: registerSchema
registerSchemaValid(body) ==
  /\ DOMAIN body \subseteq { "email", "password", "name" }
  /\ Has(body, "email") /\ IsEmail(body.email)
  /\ Has(body, "password") /\ Len(body.password) >= 6

\* service_users: loginSchema
loginSchemaValid(body) ==
  /\ DOMAIN body \subseteq { "email", "password" }
  /\ Has(body, "email") /\ IsEmail(body.email)
  /\ Has(body, "password") /\ Len(body.password) >= 1

\* service_users: updateSchema
usersUpdateSchemaValid(body) ==
  /\ DOMAIN body \subseteq { "name", "password" }
  /\ Has(body, "password") => Len(body.password) >= 6

\* service_orders: createSchema (total is kept in cents)
createSchemaValid(body) ==
  /\ DOMAIN body \subseteq { "items", "total" }
  /\ Has(body, "items") /\ Len(body.items) >= 1
  /\ \A i \in 1..Len(body.items) : body.items[i].product # "" /\ body.items[i].qty >= 1
  /\ Has(body, "total") /\ body.total >= 0

\* an update schema that takes any string for the status
ordersUpdateSchemaAnyStatus(body) == DOMAIN body = { "status" }

\* service_orders: updateSchema
ordersUpdateSchemaValid(body) ==
  /\ DOMAIN body \subseteq { "status" }
  /\ Has(body, "status")
  /\ body.status \in { "created", "in_progress", "completed", "cancelled" }

----------------------------------------------------------------------------
(* Responses.  A response records who answered which operation for which    *)
(* request at which instant, whether the route handler ran (the guard, if   *)
(* any, called next()), the req.user it ran with, and what it sent.         *)

Answer(svc, op, req, t, ran, user, status, code, data) ==
  [svc |-> svc, op |-> op, req |-> req, at |-> t, ran |-> ran, user |-> user,
   status |-> status, code |-> code, data |-> data]

\* roles = req.user.roles || []
RolesOf(user) == IF "roles" \in DOMAIN user THEN user.roles ELSE << >>

\* Array.prototype.includes
Includes(arr, x) == \E i \in 1..Len(arr) : arr[i] = x

\* a JavaScript number: an integer or NaN
Num(v) == [nan |-> FALSE, v |-> v]
NaN == [nan |-> TRUE, v |-> 0]

\* length of the longest prefix of s made of digits
DigitPrefix(s) ==
  CHOOSE n \in 0..Len(s) :
    /\ \A i \in 1..n : IsDigit(SubSeq(s, i, i))
    /\ n < Len(s) => ~IsDigit(SubSeq(s, n + 1, n + 1))

\* parseInt(s, 10): an optional sign and the leading digits, NaN without digits
parseInt(s) ==
  LET neg == Len(s) > 0 /\ SubSeq(s, 1, 1) = "-"
      rest == IF neg THEN SubSeq(s, 2, Len(s)) ELSE s
      n == DigitPrefix(rest)
  IN  IF n = 0 THEN NaN
      ELSE IF neg THEN Num(0 - ParseNat(SubSeq(rest, 1, n)))
      ELSE Num(ParseNat(SubSeq(rest, 1, n)))

\* Math.max and Math.min: NaN when an argument is NaN
MathMax(a, b) == IF a.nan \/ b.nan THEN NaN ELSE IF a.v >= b.v THEN a ELSE b
MathMin(a, b) == IF a.nan \/ b.nan THEN NaN ELSE IF a.v <= b.v THEN a ELSE b

\* const page = Math.max(parseInt(req.query.page || "1", 10), 1)
pageOf(q) == MathMax(parseInt(OrElse(q, "1")), Num(1))

\* const limit = Math.min(Math.max(parseInt(req.query.limit || "20", 10), 1), 100)
limitOf(q) == MathMin(MathMax(parseInt(OrElse(q, "20")), Num(1)), Num(100))

\* rows as a sequence, newest (highest identifier) first
RECURSIVE NewestFirst(_)
NewestFirst(rows) ==
  IF rows = {} THEN << >>
  ELSE LET r == CHOOSE x \in rows : \A y \in rows : y.id <= x.id
       IN  << r >> \o NewestFirst(rows \ { r })

\* LIMIT limit OFFSET offset
Page(seq, limit, offset) ==
  SubSeq(seq, offset + 1, IF offset + limit < Len(seq) THEN offset + limit ELSE Len(seq))

----------------------------------------------------------------------------
(* service_users/index.js.  Each handler gives the response it sends and    *)
(* the table it leaves.                                                      *)

toPublic(row) == [id |-> row.id, email |-> row.email, name |-> row.name, roles |-> row.roles]

Done(U, r) == [users |-> U, resp |-> r]

\* POST /v1/users/register, up to the await of bcrypt.hash: the validation
\* error it answers with, or the INSERT it is about to send
registerBegin(body, t) ==
  IF ~registerSchemaValid(body)
  THEN [answered |-> TRUE,
        resp |-> Answer("users", "register", body, t, TRUE, NoPayload, 400,
                        "VALIDATION_ERROR", None),
        insert |-> NoPayload]
  ELSE [answered |-> FALSE,
        resp |-> Answer("users", "register", body, t, TRUE, NoPayload, 0, "", None),
        insert |-> [body |-> body, email |-> body.email,
                    hashed |-> bcryptHash(body.password),
                    name |-> IF Has(body, "name") THEN body.name ELSE ""]]

\* a registration that inserts the new user with the admin role
registerInsertAsAdmin(c, U, t) ==
  LET ins == usersInsert(U, c.email, c.hashed, c.name, << "user", "admin" >>)
  IN  IF ins.err = ""
        THEN Done(ins.rows, Answer("users", "register", c.body, t, TRUE, NoPayload, 200, "",
                                   Some(toPublic(ins.row))))
      ELSE IF ins.err = "23505"
        THEN Done(U, Answer("users", "register", c.body, t, TRUE, NoPayload, 400,
                            "USER_EXISTS", None))
      ELSE Done(U, Answer("users", "register", c.body, t, TRUE, NoPayload, 500,
                          "INTERNAL", None))

\* POST /v1/users/register, from the INSERT on
registerInsert(c, U, t) ==
  LET ins == usersInsert(U, c.email, c.hashed, c.name, << "user" >>)
  IN  IF ins.err = ""
        THEN Done(ins.rows, Answer("users", "register", c.body, t, TRUE, NoPayload, 200, "",
                                   Some(toPublic(ins.row))))
      ELSE IF ins.err = "23505"
        THEN Done(U, Answer("users", "register", c.body, t, TRUE, NoPayload, 400,
                            "USER_EXISTS", None))
      ELSE Done(U, Answer("users", "register", c.body, t, TRUE, NoPayload, 500,
                          "INTERNAL", None))

\* a login that signs whenever the email is known, without comparing the
\* password
loginNoCompare(body, U, t) ==
  LET rows == { r \in U : r.email = body.email }
      user == CHOOSE r \in rows : \A q \in rows : r.id <= q.id
  IN  IF ~loginSchemaValid(body)
        THEN Answer("users", "login", body, t, TRUE, NoPayload, 400, "VALIDATION_ERROR", None)
      ELSE IF rows = {}
        THEN Answer("users", "login", body, t, TRUE, NoPayload, 401, "NOT_FOUND", None)
      ELSE Answer("users", "login", body, t, TRUE, NoPayload, 200, "",
                  Some([token |-> JwtSign([id |-> user.id, email |-> user.email,
                                           roles |-> user.roles],
                                          JWT_SECRET_USERS, TOKEN_EXPIRES, t)]))

\* a login whose expiresIn is read as days where the code gives hours
loginLongLived(body, U, t) ==
  LET rows == { r \in U : r.email = body.email }
      user == CHOOSE r \in rows : \A q \in rows : r.id <= q.id
  IN  IF ~loginSchemaValid(body)
        THEN Answer("users", "login", body, t, TRUE, NoPayload, 400, "VALIDATION_ERROR", None)
      ELSE IF rows = {}
        THEN Answer("users", "login", body, t, TRUE, NoPayload, 401, "NOT_FOUND", None)
      ELSE IF ~bcryptCompare(body.password, user.password)
        THEN Answer("users", "login", body, t, TRUE, NoPayload, 403,
                    "INVALID_CREDENTIALS", None)
      ELSE Answer("users", "login", body, t, TRUE, NoPayload, 200, "",
                  Some([token |-> JwtSign([id |-> user.id, email |-> user.email,
                                           roles |-> user.roles],
                                          JWT_SECRET_USERS, 24 * TOKEN_EXPIRES, t)]))

\* POST /v1/users/login
login(body, U, t) ==
  LET rows == { r \in U : r.email = body.email }
      user == CHOOSE r \in rows : \A q \in rows : r.id <= q.id
  IN  IF ~loginSchemaValid(body)
        THEN Answer("users", "login", body, t, TRUE, NoPayload, 400, "VALIDATION_ERROR", None)
      ELSE IF rows = {}
        THEN Answer("users", "login", body, t, TRUE, NoPayload, 401, "NOT_FOUND", None)
      ELSE IF ~bcryptCompare(body.password, user.password)
        THEN Answer("users", "login", body, t, TRUE, NoPayload, 403,
                    "INVALID_CREDENTIALS", None)
      ELSE Answer("users", "login", body, t, TRUE, NoPayload, 200, "",
                  Some([token |-> JwtSign([id |-> user.id, email |-> user.email,
                                           roles |-> user.roles],
                                          JWT_SECRET_USERS, TOKEN_EXPIRES, t)]))

\* GET /v1/users/me
getMe(req, U, t) ==
  LET g == authMiddlewareUsers(req.authorization, t)
      rows == { r \in U : r.id = g.user.id }
  IN  IF ~g.next
        THEN Answer("users", "getMe", req, t, FALSE, NoPayload, g.status, g.code, None)
      ELSE IF rows = {}
        THEN Answer("users", "getMe", req, t, TRUE, g.user, 404, "NOT_FOUND", None)
      ELSE Answer("users", "getMe", req, t, TRUE, g.user, 200, "",
                  Some(toPublic(CHOOSE r \in rows : TRUE)))

\* the row an UPDATE users ... WHERE id leaves for a row of that id
patchedRow(r, body) ==
  [id |-> r.id, email |-> r.email, roles |-> r.roles,
   name |-> IF Has(body, "name") THEN body.name ELSE r.name,
   password |-> IF Has(body, "password") /\ body.password # ""
                THEN bcryptHash(body.password) ELSE r.password]

\* a PATCH whose UPDATE has lost its WHERE id
patchMeEveryRow(req, U, t) ==
  LET g == authMiddlewareUsers(req.authorization, t)
      body == req.body
      hit == { r \in U : r.id = g.user.id }
      U2 == { patchedRow(r, body) : r \in U }
  IN  IF ~g.next
        THEN Done(U, Answer("users", "patchMe", req, t, FALSE, NoPayload, g.status, g.code,
                            None))
      ELSE IF ~usersUpdateSchemaValid(body)
        THEN Done(U, Answer("users", "patchMe", req, t, TRUE, g.user, 400,
                            "VALIDATION_ERROR", None))
      ELSE IF ~Has(body, "name") /\ ~(Has(body, "password") /\ body.password # "")
        THEN Done(U, Answer("users", "patchMe", req, t, TRUE, g.user, 200, "", None))
      ELSE Done(U2, Answer("users", "patchMe", req, t, TRUE, g.user, 200, "",
                           IF hit = {} THEN None
                           ELSE Some(toPublic(patchedRow(CHOOSE r \in hit : TRUE, body)))))

\* PATCH /v1/users/me
patchMe(req, U, t) ==
  LET g == authMiddlewareUsers(req.authorization, t)
      body == req.body
      hit == { r \in U : r.id = g.user.id }
      U2 == (U \ hit) \cup { patchedRow(r, body) : r \in hit }
  IN  IF ~g.next
        THEN Done(U, Answer("users", "patchMe", req, t, FALSE, NoPayload, g.status, g.code,
                            None))
      ELSE IF ~usersUpdateSchemaValid(body)
        THEN Done(U, Answer("users", "patchMe", req, t, TRUE, g.user, 400,
                            "VALIDATION_ERROR", None))
      ELSE IF ~Has(body, "name") /\ ~(Has(body, "password") /\ body.password # "")
        THEN Done(U, Answer("users", "patchMe", req, t, TRUE, g.user, 200, "", None))
      ELSE Done(U2, Answer("users", "patchMe", req, t, TRUE, g.user, 200, "",
                           IF hit = {} THEN None
                           ELSE Some(toPublic(patchedRow(CHOOSE r \in hit : TRUE, body)))))

\* a listing open to every authenticated identity
listUsersAnyRole(req, U, t) ==
  LET g == authMiddlewareUsers(req.authorization, t)
      page == pageOf(req.page)
      limit == limitOf(req.limit)
      rows == Page(NewestFirst(U), limit.v, (page.v - 1) * limit.v)
  IN  IF ~g.next
        THEN Answer("users", "listUsers", req, t, FALSE, NoPayload, g.status, g.code, None)
      ELSE IF page.nan \/ limit.nan
        THEN Answer("users", "listUsers", req, t, TRUE, g.user, 500, "INTERNAL", None)
      ELSE Answer("users", "listUsers", req, t, TRUE, g.user, 200, "",
                  Some([items |-> [i \in 1..Len(rows) |-> toPublic(rows[i])],
                        page |-> page.v, limit |-> limit.v]))

\* GET /v1/users; a NaN limit or offset makes the query throw
listUsers(req, U, t) ==
  LET g == authMiddlewareUsers(req.authorization, t)
      page == pageOf(req.page)
      limit == limitOf(req.limit)
      rows == Page(NewestFirst(U), limit.v, (page.v - 1) * limit.v)
  IN  IF ~g.next
        THEN Answer("users", "listUsers", req, t, FALSE, NoPayload, g.status, g.code, None)
      ELSE IF ~Includes(RolesOf(g.user), "admin")
        THEN Answer("users", "listUsers", req, t, TRUE, g.user, 403, "FORBIDDEN", None)
      ELSE IF page.nan \/ limit.nan
        THEN Answer("users", "listUsers", req, t, TRUE, g.user, 500, "INTERNAL", None)
      ELSE Answer("users", "listUsers", req, t, TRUE, g.user, 200, "",
                  Some([items |-> [i \in 1..Len(rows) |-> toPublic(rows[i])],
                        page |-> page.v, limit |-> limit.v]))

----------------------------------------------------------------------------
(* service_orders/index.js.  Each handler gives the response it sends and   *)
(* the table it leaves.  Every route sits behind ordersGuard.               *)

orderPublic(row) ==
  [id |-> row.id, user_id |-> row.user_id, items |-> row.items,
   status |-> row.status, total |-> row.total]

DoneO(O, r) == [orders |-> O, resp |-> r]

\* the id column is a UUID: a parameter that is none makes the query throw
IsUuid(s) == IsNumeral(s)

\* POST /v1/orders
createOrder(req, U, O, t) ==
  LET g == ordersGuard("/v1/orders", req.authorization, t)
      ins == ordersInsert(O, g.user.id, req.body.items, "created", req.body.total)
  IN  IF ~g.next
        THEN DoneO(O, Answer("orders", "createOrder", req, t, FALSE, NoPayload,
                             g.status, g.code, None))
      ELSE IF ~createSchemaValid(req.body)
        THEN DoneO(O, Answer("orders", "createOrder", req, t, TRUE, g.user, 400,
                             "VALIDATION_ERROR", None))
      ELSE IF ~\E u \in U : u.id = g.user.id
        THEN DoneO(O, Answer("orders", "createOrder", req, t, TRUE, g.user, 400,
                             "USER_NOT_FOUND", None))
      ELSE DoneO(ins.rows, Answer("orders", "createOrder", req, t, TRUE, g.user, 201, "",
                                  Some(orderPublic(ins.row))))

\* GET /v1/orders/:id
getOrder(req, O, t) ==
  LET g == ordersGuard("/v1/orders/" \o req.id, req.authorization, t)
      rows == { o \in O : ToString(o.id) = req.id }
      order == CHOOSE o \in rows : TRUE
  IN  IF ~g.next
        THEN Answer("orders", "getOrder", req, t, FALSE, NoPayload, g.status, g.code, None)
      ELSE IF ~IsUuid(req.id)
        THEN Answer("orders", "getOrder", req, t, TRUE, g.user, 500, "INTERNAL", None)
      ELSE IF rows = {}
        THEN Answer("orders", "getOrder", req, t, TRUE, g.user, 404, "NOT_FOUND", None)
      ELSE IF order.user_id # g.user.id /\ ~Includes(RolesOf(g.user), "admin")
        THEN Answer("orders", "getOrder", req, t, TRUE, g.user, 403, "FORBIDDEN", None)
      ELSE Answer("orders", "getOrder", req, t, TRUE, g.user, 200, "",
                  Some(orderPublic(order)))

\* GET /v1/orders
listOrders(req, O, t) ==
  LET g == ordersGuard("/v1/orders", req.authorization, t)
      page == pageOf(req.page)
      limit == limitOf(req.limit)
      mine == NewestFirst({ o \in O : o.user_id = g.user.id })
      sorted == IF req.sort = Some("asc")
                THEN [i \in 1..Len(mine) |-> mine[Len(mine) + 1 - i]] ELSE mine
      rows == Page(sorted, limit.v, (page.v - 1) * limit.v)
  IN  IF ~g.next
        THEN Answer("orders", "listOrders", req, t, FALSE, NoPayload, g.status, g.code, None)
      ELSE IF page.nan \/ limit.nan
        THEN Answer("orders", "listOrders", req, t, TRUE, g.user, 500, "INTERNAL", None)
      ELSE Answer("orders", "listOrders", req, t, TRUE, g.user, 200, "",
                  Some([items |-> [i \in 1..Len(rows) |-> orderPublic(rows[i])],
                        page |-> page.v, limit |-> limit.v]))

\* a PATCH that lets the owner alone through, the administrator included
\* among the others
patchOrderOwnerOnly(req, O, t) ==
  LET g == ordersGuard("/v1/orders/" \o req.id, req.authorization, t)
      rows == { o \in O : ToString(o.id) = req.id }
      order == CHOOSE o \in rows : TRUE
      upd == [order EXCEPT !.status = req.body.status]
  IN  IF ~g.next
        THEN DoneO(O, Answer("orders", "patchOrder", req, t, FALSE, NoPayload,
                             g.status, g.code, None))
      ELSE IF ~ordersUpdateSchemaValid(req.body)
        THEN DoneO(O, Answer("orders", "patchOrder", req, t, TRUE, g.user, 400,
                             "VALIDATION_ERROR", None))
      ELSE IF ~IsUuid(req.id)
        THEN DoneO(O, Answer("orders", "patchOrder", req, t, TRUE, g.user, 500,
                             "INTERNAL", None))
      ELSE IF rows = {}
        THEN DoneO(O, Answer("orders", "patchOrder", req, t, TRUE, g.user, 404,
                             "NOT_FOUND", None))
      ELSE IF order.user_id # g.user.id
        THEN DoneO(O, Answer("orders", "patchOrder", req, t, TRUE, g.user, 403,
                             "FORBIDDEN", None))
      ELSE DoneO((O \ rows) \cup { upd },
                 Answer("orders", "patchOrder", req, t, TRUE, g.user, 200, "",
                        Some(orderPublic(upd))))

\* PATCH /v1/orders/:id
patchOrder(req, O, t) ==
  LET g == ordersGuard("/v1/orders/" \o req.id, req.authorization, t)
      rows == { o \in O : ToString(o.id) = req.id }
      order == CHOOSE o \in rows : TRUE
      upd == [order EXCEPT !.status = req.body.status]
  IN  IF ~g.next
        THEN DoneO(O, Answer("orders", "patchOrder", req, t, FALSE, NoPayload,
                             g.status, g.code, None))
      ELSE IF ~ordersUpdateSchemaValid(req.body)
        THEN DoneO(O, Answer("orders", "patchOrder", req, t, TRUE, g.user, 400,
                             "VALIDATION_ERROR", None))
      ELSE IF ~IsUuid(req.id)
        THEN DoneO(O, Answer("orders", "patchOrder", req, t, TRUE, g.user, 500,
                             "INTERNAL", None))
      ELSE IF rows = {}
        THEN DoneO(O, Answer("orders", "patchOrder", req, t, TRUE, g.user, 404,
                             "NOT_FOUND", None))
      ELSE IF order.user_id # g.user.id /\ ~Includes(RolesOf(g.user), "admin")
        THEN DoneO(O, Answer("orders", "patchOrder", req, t, TRUE, g.user, 403,
                             "FORBIDDEN", None))
      ELSE DoneO((O \ rows) \cup { upd },
                 Answer("orders", "patchOrder", req, t, TRUE, g.user, 200, "",
                        Some(orderPublic(upd))))

\* GET /health
ordersHealth(req, t) ==
  LET g == ordersGuard("/health", req.authorization, t)
  IN  Answer("orders", "health", req, t, g.next, g.user, 200, "", Some([status |-> "orders OK"]))

----------------------------------------------------------------------------
(* api_gateway/index.js: the middleware chain of one request                *)

NoRequest == [none |-> TRUE]

\* a store that opens a new window at every hit
rateLimitHitAlwaysFresh(lim, ip, t) ==
  [lim EXCEPT ![ip] = [count |-> 1, resetAt |-> t + RATE_WINDOW]]

\* express-rate-limit, memory store, keyed by req.ip: a fixed window per key
\* that opens at the key's first hit and is dropped once it has elapsed
rateLimitHit(lim, ip, t) ==
  LET cur == IF t >= lim[ip].resetAt
             THEN [count |-> 0, resetAt |-> t + RATE_WINDOW]
             ELSE lim[ip]
  IN  [lim EXCEPT ![ip] = [count |-> cur.count + 1, resetAt |-> cur.resetAt]]

\* a gateway that gives every request an identifier of its own making
requestIdAlwaysNew(req, t, rnd) == ToString(t) \o "000-" \o rnd

\* X-Request-ID passthrough: preserve or generate
requestId(req, t, rnd) ==
  IF ~Falsy(req.xRequestId) THEN req.xRequestId[1]
  ELSE IF ~Falsy(req.xRequestid) THEN req.xRequestid[1]
  ELSE ToString(t) \o "000-" \o rnd

\* express mount matching of app.use(prefix, ...): the prefix, then "/" or the end
Mounted(path, prefix) == path = prefix \/ StartsWith(path, prefix \o "/")

\* createProxy: the request sent to the backend
proxyRequest(req, rid) ==
  [method |-> req.method, path |-> req.path,
   xRequestId |-> Some(rid),
   authorization |-> Some(OrElse(req.authorization, ""))]

\* What the gateway does with one request at clock t; lim is the limiter's
\* store after this request's hit
gatewayHandle(req, lim, t, rnd) ==
  LET rid == requestId(req, t, rnd)
      g == verifyJWT(req.path, req.authorization, t)
      base == [req |-> req, at |-> t, rid |-> rid, guard |-> "none", user |-> NoPayload,
               outcome |-> "limited", status |-> 429, code |-> "",
               target |-> "", fwd |-> NoRequest]
  IN  IF lim[req.ip].count > RATE_MAX THEN [base EXCEPT !.rid = ""]
      ELSE IF ~g.next
        THEN [base EXCEPT !.guard = "rejected", !.outcome = "rejected",
                          !.status = g.status, !.code = g.code]
      ELSE LET b == [base EXCEPT !.guard = IF isPublicPath(req.path) THEN "bypassed"
                                           ELSE "accepted",
                                 !.user = g.user]
           IN  IF Mounted(req.path, "/v1/users")
                 THEN [b EXCEPT !.outcome = "forwarded", !.status = 0,
                                !.target = "users", !.fwd = proxyRequest(req, rid)]
               ELSE IF Mounted(req.path, "/v1/orders")
                 THEN [b EXCEPT !.outcome = "forwarded", !.status = 0,
                                !.target = "orders", !.fwd = proxyRequest(req, rid)]
               ELSE IF req.method = "GET" /\ req.path \in { "/health", "/health/" }
                 THEN [b EXCEPT !.outcome = "local", !.status = 200]
               ELSE [b EXCEPT !.outcome = "notfound", !.status = 404]

----------------------------------------------------------------------------
(* Sampled inputs *)

\* clock instants: the start, and the instants around the expiry of a token
\* signed at the start
Instants == { 0 } \cup ((TOKEN_EXPIRES - 1) .. (TOKEN_EXPIRES - 1 + MaxLate))

RootClaims == [id |-> 1, email |-> "root@example.com", roles |-> << "user", "admin" >>]
AliceClaims == [id |-> 2, email |-> "alice@example.com", roles |-> << "user" >>]
BobClaims == [id |-> 3, email |-> "bob@example.com", roles |-> << "user" >>]

\* tokens signed at instant 0 with the shared secret
TokRoot == JwtSign(RootClaims, "supersecret", TOKEN_EXPIRES, 0)
TokAlice == JwtSign(AliceClaims, "supersecret", TOKEN_EXPIRES, 0)
TokBob == JwtSign(BobClaims, "supersecret", TOKEN_EXPIRES, 0)

\* signed with the shared secret by another issuer, with no roles field
TokNoRoles ==
  LET data == JwtPayloadEncode([id |-> 3, email |-> "bob@example.com",
                                iat |-> 0, exp |-> TOKEN_EXPIRES])
  IN  Join(<< "HS256", data, Hmac("supersecret", data) >>, ":")

\* the administrator's claims signed with a key that is not the secret
TokForged == JwtSign(RootClaims, "guessed", TOKEN_EXPIRES, 0)

\* alice's token with the admin role written into the payload after signing
TokTampered ==
  LET data == JwtPayloadEncode([id |-> 2, email |-> "alice@example.com",
                                roles |-> << "user", "admin" >>,
                                iat |-> 0, exp |-> TOKEN_EXPIRES])
  IN  Join(<< "HS256", data, Split(TokAlice, ":")[3] >>, ":")

Bearer(tok) == Some("Bearer " \o tok)

\* Authorization header values: absent, empty, of another shape than
\* "Bearer <credential>", and Bearer with each kind of credential
MalformedHeaders ==
  { Some("Bearer"), Some("Token abc"), Some("bearer " \o TokAlice),
    Some("Bearer  " \o TokAlice), Some("Bearer " \o TokAlice \o " x"),
    Some(" Bearer " \o TokAlice) }

GoodHeaders == { Bearer(TokRoot), Bearer(TokAlice), Bearer(TokBob), Bearer(TokNoRoles) }

BadTokenHeaders == { Bearer(TokForged), Bearer(TokTampered), Bearer("abc") }

SampleHeaders ==
  { None, Some(""), Some("Bearer ") } \cup MalformedHeaders \cup GoodHeaders
  \cup BadTokenHeaders

\* the headers a backend is sent in the samples of its requests
BackendHeaders ==
  { None, Some("Token abc"), Bearer(TokForged), Bearer("abc"),
    Bearer(TokRoot), Bearer(TokAlice) }

SamplePaths ==
  { "/v1/users/register", "/v1/users/registerX", "/v1/users/login",
    "/health", "/healthz", "/v1/users", "/v1/users/me", "/v1/usersX",
    "/v1/orders", "/v1/orders/1", "/metrics" }

\* gateway requests: every sampled path with a missing, a good and a forged
\* token, and every sampled header on two protected paths
GatewayRequests ==
  [ip : { "10.0.0.7" }, method : { "GET" }, path : SamplePaths,
   xRequestId : { None }, xRequestid : { None },
   authorization : { None, Bearer(TokAlice), Bearer(TokForged) }]
  \cup
  [ip : { "10.0.0.7" }, method : { "GET" }, path : { "/v1/users/me", "/v1/orders/1" },
   xRequestId : { Some("req-42") }, xRequestid : { None },
   authorization : SampleHeaders]
  \cup
  [ip : { "10.0.0.7" }, method : { "POST" }, path : { "/health", "/v1/users/login" },
   xRequestId : { None }, xRequestid : { Some("req-43") },
   authorization : { None }]
  \cup
  [ip : { "10.0.0.7" }, method : { "PATCH" }, path : { "/v1/orders/1" },
   xRequestId : { Some(""), Some("req-42") }, xRequestid : { Some("req-43") },
   authorization : { Bearer(TokAlice) }]

\* the requests of a client that sends many: a login, a protected request
\* with a good token and one with no header
BurstRequests ==
  { [ip |-> "10.0.0.7", method |-> "POST", path |-> "/v1/users/login",
     xRequestId |-> None, xRequestid |-> None, authorization |-> None],
    [ip |-> "10.0.0.7", method |-> "GET", path |-> "/v1/orders/1",
     xRequestId |-> Some("req-42"), xRequestid |-> None,
     authorization |-> Bearer(TokAlice)],
    [ip |-> "10.0.0.7", method |-> "GET", path |-> "/v1/users/me",
     xRequestId |-> None, xRequestid |-> None, authorization |-> None] }

\* bodies of POST /v1/users/register
RegisterBodies ==
  { [email |-> "alice@example.com", password |-> "secret1"],
    [email |-> "alice.example.com", password |-> "secret1"],
    [email |-> "alice@example.com", password |-> "abc"] }

\* bodies of POST /v1/users/login
LoginBodies ==
  { [email |-> "alice@example.com", password |-> "secret1"],
    [email |-> "alice@example.com", password |-> "secret2"],
    [email |-> "root@example.com", password |-> "rootpw"],
    [email |-> "nobody@example.com", password |-> "secret1"],
    [email |-> "alice@example.com"] }

EmptyBody == << >>

\* requests of the protected routes of the users service; a forwarded request
\* differs from a direct one by the headers the gateway's proxy sets
MeRequests ==
  [authorization : BackendHeaders, xRequestId : { None }]
  \cup [authorization : { Bearer(TokAlice), Some("") }, xRequestId : { Some("req-42") }]

PatchMeRequests ==
  [authorization : BackendHeaders, xRequestId : { None }, body : { EmptyBody }]
  \cup [authorization : { Bearer(TokAlice) }, xRequestId : { None },
        body : { [password |-> "secret2"], [password |-> "abc"], [roles |-> "admin"] }]

\* query strings ?page=..&limit=..: below, inside and above the range, and
\* one that is no number
PageQueries ==
  { [page |-> Some("0"), limit |-> Some("150")],
    [page |-> Some("-3"), limit |-> Some("0")],
    [page |-> Some("2"), limit |-> Some("1")],
    [page |-> None, limit |-> Some("abc")] }

ListUsersRequests ==
  [authorization : BackendHeaders \cup { Bearer(TokBob), Bearer(TokNoRoles) },
   xRequestId : { None }, page : { None }, limit : { None }]
  \cup { [authorization |-> Bearer(TokRoot), xRequestId |-> None,
           page |-> q.page, limit |-> q.limit] : q \in PageQueries }

\* requests of the routes of the orders service
OrderBody == [items |-> << [product |-> "widget", qty |-> 2] >>, total |-> 999]

CreateOrderRequests ==
  [authorization : BackendHeaders, xRequestId : { None }, body : { OrderBody }]
  \cup [authorization : { Bearer(TokAlice) }, xRequestId : { Some("req-42") },
        body : { OrderBody, [items |-> << >>, total |-> 999] }]

GetOrderRequests ==
  [authorization : BackendHeaders \cup { Bearer(TokBob), Bearer(TokNoRoles) },
   xRequestId : { None }, id : { "1" }]
  \cup [authorization : { Bearer(TokAlice) }, xRequestId : { None }, id : { "2", "abc" }]

ListOrdersRequests ==
  [authorization : BackendHeaders, xRequestId : { None },
   page : { None }, limit : { None }, sort : { None }]
  \cup { [authorization |-> Bearer(TokAlice), xRequestId |-> None,
           page |-> q.page, limit |-> q.limit, sort |-> Some("asc")] : q \in PageQueries }

PatchOrderRequests ==
  [authorization : BackendHeaders \cup { Bearer(TokBob), Bearer(TokNoRoles) },
   xRequestId : { None }, id : { "1" }, body : { [status |-> "completed"] }]
  \cup [authorization : { Bearer(TokAlice), Bearer(TokBob), None },
        xRequestId : { None }, id : { "1", "2" }, body : { [status |-> "shipped"] }]

HealthRequests == [authorization : { None, Bearer("abc") }, xRequestId : { None }]

\* the token of a login just answered, as the next request's header
FreshLogin ==
  IF resp.op = "login" /\ resp.status = 200
  THEN { [authorization |-> Bearer(resp.data[1].token), xRequestId |-> None] }
  ELSE {}

----------------------------------------------------------------------------
(* State *)

NoResponse ==
  [svc |-> "", op |-> "", req |-> NoRequest, at |-> 0, ran |-> FALSE,
   user |-> NoPayload, status |-> 0, code |-> "", data |-> None]

GwIdle ==
  [req |-> NoRequest, at |-> 0, rid |-> "", guard |-> "none", user |-> NoPayload,
   outcome |-> "idle", status |-> 0, code |-> "", target |-> "", fwd |-> NoRequest]

\* the administrator, inserted with the schema: the API creates rows with
\* roles ['user'] only
RootRow ==
  [id |-> 1, email |-> "root@example.com", password |-> bcryptHash("rootpw"),
   name |-> "root", roles |-> << "user", "admin" >>]

\* rows as two registrations leave them
AliceRow ==
  [id |-> 2, email |-> "alice@example.com", password |-> bcryptHash("secret1"),
   name |-> "", roles |-> << "user" >>]
BobRow ==
  [id |-> 3, email |-> "bob@example.com", password |-> bcryptHash("secret1"),
   name |-> "", roles |-> << "user" >>]

InitCommon ==
  /\ now = 0
  /\ orders = {}
  /\ pending = EmptyBag
  /\ limiter = [ip \in { "10.0.0.7" } |-> [count |-> 0, resetAt |-> 0]]
  /\ gw = GwIdle
  /\ resp = NoResponse

\* a fresh deployment: the administrator is the only user
Init == InitCommon /\ users = { RootRow }

\* a deployment where alice and bob have registered
InitBackends == InitCommon /\ users = { RootRow, AliceRow, BobRow }

----------------------------------------------------------------------------
(* Actions *)

\* time passes; gw and resp record the exchange of the current instant, and
\* none is in progress once the clock has moved on
Tick ==
  /\ \E t \in Instants : t > now /\ now' = t
  /\ gw' = GwIdle
  /\ resp' = NoResponse
  /\ UNCHANGED << users, orders, pending, limiter >>

\* the gateway receives a request and answers it or hands it to a backend
GatewayRequest ==
  \E req \in GatewayRequests, rnd \in { "k3x9" } :
    LET lim == rateLimitHit(limiter, req.ip, now)
    IN  /\ lim[req.ip].count <= MaxHits
        /\ limiter' = lim
        /\ gw' = gatewayHandle(req, lim, now, rnd)
        /\ UNCHANGED << now, users, orders, pending, resp >>

\* the gateway receives one request of a client that sends many
GatewayBurst ==
  \E req \in BurstRequests, rnd \in { "k3x9" } :
    LET lim == rateLimitHit(limiter, req.ip, now)
    IN  /\ lim[req.ip].count <= RATE_MAX + MaxOver
        /\ limiter' = lim
        /\ gw' = gatewayHandle(req, lim, now, rnd)
        /\ UNCHANGED << now, users, orders, pending, resp >>

\* POST /v1/users/register arrives and runs to its first await
RegisterBegin ==
  \E body \in RegisterBodies :
    LET b == registerBegin(body, now)
    IN  /\ BagCardinality(pending) < MaxPending
        /\ Cardinality(users) < MaxUsers
        /\ IF b.answered
           THEN resp' = b.resp /\ pending' = pending
           ELSE resp' = resp /\ pending' = pending (+) SetToBag({ b.insert })
        /\ UNCHANGED << now, users, orders, limiter, gw >>

\* a suspended registration sends its INSERT and answers
RegisterInsert ==
  \E c \in BagToSet(pending) :
    LET d == registerInsert(c, users, now)
    IN  /\ pending' = pending (-) SetToBag({ c })
        /\ users' = d.users
        /\ resp' = d.resp
        /\ UNCHANGED << now, orders, limiter, gw >>

\* POST /v1/users/login
Login ==
  \E body \in LoginBodies :
    /\ resp' = login(body, users, now)
    /\ UNCHANGED << now, users, orders, pending, limiter, gw >>

\* GET /v1/users/me
GetMe ==
  \E req \in MeRequests \cup FreshLogin :
    /\ resp' = getMe(req, users, now)
    /\ UNCHANGED << now, users, orders, pending, limiter, gw >>

\* PATCH /v1/users/me
PatchMe ==
  \E req \in PatchMeRequests
             \cup { [authorization |-> f.authorization, xRequestId |-> None,
                     body |-> [password |-> "secret2"]] : f \in FreshLogin } :
    LET d == patchMe(req, users, now)
    IN  /\ users' = d.users
        /\ resp' = d.resp
        /\ UNCHANGED << now, orders, pending, limiter, gw >>

\* GET /v1/users
ListUsers ==
  \E req \in ListUsersRequests :
    /\ resp' = listUsers(req, users, now)
    /\ UNCHANGED << now, users, orders, pending, limiter, gw >>

\* POST /v1/orders
CreateOrder ==
  \E req \in CreateOrderRequests :
    LET d == createOrder(req, users, orders, now)
    IN  /\ Cardinality(orders) < MaxOrders
        /\ orders' = d.orders
        /\ resp' = d.resp
        /\ UNCHANGED << now, users, pending, limiter, gw >>

\* GET /v1/orders/:id
GetOrder ==
  \E req \in GetOrderRequests :
    /\ resp' = getOrder(req, orders, now)
    /\ UNCHANGED << now, users, orders, pending, limiter, gw >>

\* GET /v1/orders
ListOrders ==
  \E req \in ListOrdersRequests :
    /\ resp' = listOrders(req, orders, now)
    /\ UNCHANGED << now, users, orders, pending, limiter, gw >>

\* PATCH /v1/orders/:id
PatchOrder ==
  \E req \in PatchOrderRequests :
    LET d == patchOrder(req, orders, now)
    IN  /\ orders' = d.orders
        /\ resp' = d.resp
        /\ UNCHANGED << now, users, pending, limiter, gw >>

\* GET /health of the orders service
OrdersHealth ==
  \E req \in HealthRequests :
    /\ resp' = ordersHealth(req, now)
    /\ UNCHANGED << now, users, orders, pending, limiter, gw >>

----------------------------------------------------------------------------
(* Specifications *)

\* the gateway alone
NextGateway == Tick \/ GatewayRequest
SpecGateway == Init /\ [][NextGateway]_vars

\* the gateway under a client that uses up the limiter's cap
NextLimiter == Tick \/ GatewayBurst
SpecLimiter == Init /\ [][NextLimiter]_vars

\* the users service, from a fresh deployment
Next == Tick \/ RegisterBegin \/ RegisterInsert \/ Login \/ GetMe \/ PatchMe \/ ListUsers
Spec == Init /\ [][Next]_vars

\* the protected routes of both backends, with registered users
NextBackends ==
  \/ Tick \/ GetMe \/ PatchMe \/ ListUsers
  \/ CreateOrder \/ GetOrder \/ ListOrders \/ PatchOrder \/ OrdersHealth
SpecBackends == InitBackends /\ [][NextBackends]_vars

----------------------------------------------------------------------------
(* Vocabulary of the claims, spelled out apart from the code's own tests    *)

\* the path is one of the three public prefixes or continues one
OnPublicPrefix(path) ==
  \E p \in { "/v1/users/register", "/v1/users/login", "/health" } :
    Len(path) >= Len(p) /\ SubSeq(path, 1, Len(p)) = p

\* "Bearer", one space, and a credential that is not empty and holds no space
WellFormedBearer(h) ==
  /\ Len(h) > 7
  /\ SubSeq(h, 1, 7) = "Bearer "
  /\ \A i \in 8..Len(h) : SubSeq(h, i, i) # " "

\* the credential of a well-formed header
Credential(h) == SubSeq(h, 8, Len(h))

\* the token is one a holder of the secret signed and its expiry lies ahead
Verifies(tok, t) == JwtVerify(tok, "supersecret", t).ok

\* the identity a verified token carries
Identity(tok, t) == JwtVerify(tok, "supersecret", t).payload

\* the gateway's last request reached the guard on a path that is not public
GatewaySawProtected ==
  gw.outcome # "idle" /\ gw.outcome # "limited" /\ ~OnPublicPrefix(gw.req.path)

----------------------------------------------------------------------------
(* C1: the gateway forwards a request without evaluating the guard only on  *)
(* a path that equals or continues a public prefix; any other request it    *)
(* forwards carried a well-formed header whose token verified, so none is   *)
(* forwarded with a missing, malformed or unverifiable token.               *)
C1_ForwardOnlyPublicOrVerified ==
  gw.outcome = "forwarded" =>
    /\ gw.guard \in { "bypassed", "accepted" }
    /\ gw.guard = "bypassed" <=> OnPublicPrefix(gw.req.path)
    /\ ~OnPublicPrefix(gw.req.path) =>
         /\ gw.req.authorization # None
         /\ WellFormedBearer(gw.req.authorization[1])
         /\ Verifies(Credential(gw.req.authorization[1]), gw.at)

\* a protected request went through after its token verified
C1_Witness ==
  /\ gw.outcome = "forwarded" /\ gw.guard = "accepted"
  /\ gw.req.path = "/v1/users/me" /\ gw.target = "users"

\* what each protected handler answers to a request with header h
ProtectedAnswers(h, t) ==
  LET r == [authorization |-> h, xRequestId |-> None]
      q == [authorization |-> h, xRequestId |-> None, page |-> None, limit |-> None]
  IN  { getMe(r, users, t),
        patchMe([authorization |-> h, xRequestId |-> None,
                 body |-> [password |-> "secret2"]], users, t).resp,
        listUsers(q, users, t),
        createOrder([authorization |-> h, xRequestId |-> None, body |-> OrderBody],
                    users, orders, t).resp,
        getOrder([authorization |-> h, xRequestId |-> None, id |-> "1"], orders, t),
        listOrders([authorization |-> h, xRequestId |-> None, page |-> None,
                    limit |-> None, sort |-> None], orders, t),
        patchOrder([authorization |-> h, xRequestId |-> None, id |-> "1",
                    body |-> [status |-> "completed"]], orders, t).resp }

\* some writing handler changes a table on a request with header h
ProtectedWrites(h, t) ==
  \/ patchMe([authorization |-> h, xRequestId |-> None,
              body |-> [password |-> "secret2"]], users, t).users # users
  \/ createOrder([authorization |-> h, xRequestId |-> None, body |-> OrderBody],
                 users, orders, t).orders # orders
  \/ patchOrder([authorization |-> h, xRequestId |-> None, id |-> "1",
                 body |-> [status |-> "completed"]], orders, t).orders # orders

\* a well-formed Bearer header whose token does not verify at t
FailsVerification(h, t) ==
  h # None /\ WellFormedBearer(h[1]) /\ ~Verifies(Credential(h[1]), t)

(* C2: on a protected path a request with no Authorization header is      *)
(* answered 401 AUTH_REQUIRED, and a request whose header is a well-formed  *)
(* Bearer header with a token that does not verify (forged, tampered,       *)
(* undecodable, expired) is answered 403 AUTH_INVALID_TOKEN; in both cases  *)
(* the gateway forwards nothing and no backend handler runs or writes.      *)
C2_RejectedBeforeHandler ==
  /\ (GatewaySawProtected /\ gw.req.authorization = None) =>
        /\ gw.outcome = "rejected" /\ gw.status = 401 /\ gw.code = "AUTH_REQUIRED"
        /\ gw.fwd = NoRequest
  /\ (GatewaySawProtected /\ FailsVerification(gw.req.authorization, gw.at)) =>
        /\ gw.outcome = "rejected" /\ gw.status = 403 /\ gw.code = "AUTH_INVALID_TOKEN"
        /\ gw.fwd = NoRequest
  /\ \A r \in ProtectedAnswers(None, now) :
        r.status = 401 /\ r.code = "AUTH_REQUIRED" /\ ~r.ran
  /\ ~ProtectedWrites(None, now)
  /\ \A h \in BackendHeaders \cup BadTokenHeaders :
        FailsVerification(h, now) =>
          /\ \A r \in ProtectedAnswers(h, now) :
                r.status = 403 /\ r.code = "AUTH_INVALID_TOKEN" /\ ~r.ran
          /\ ~ProtectedWrites(h, now)

\* the gateway turned away a token that had expired
C2_Witness ==
  /\ GatewaySawProtected /\ gw.at >= TOKEN_EXPIRES
  /\ gw.req.authorization = Bearer(TokAlice)
  /\ gw.status = 403 /\ gw.code = "AUTH_INVALID_TOKEN"

(* C3: the guard takes a header for well-formed exactly when it is Bearer,  *)
(* one space and a non-empty credential; every other header that is present *)
(* and not empty is answered 401 AUTH_INVALID, and the token verifier has   *)
(* no say in it.                                                            *)
C3_MalformedIsAuthInvalid ==
  (/\ GatewaySawProtected
   /\ ~Falsy(gw.req.authorization)
   /\ ~WellFormedBearer(gw.req.authorization[1]))
  => gw.outcome = "rejected" /\ gw.status = 401 /\ gw.code = "AUTH_INVALID"

\* "admin" is among the roles of the identity
HoldsAdmin(user) ==
  "roles" \in DOMAIN user /\ \E i \in DOMAIN user.roles : user.roles[i] = "admin"

\* the order the last request named, if the table holds it
OrderAsked == { o \in orders : ToString(o.id) = resp.req.id }

(* C4: reading or patching an order that exists, an authenticated identity *)
(* that is neither the order's owner nor an admin is answered 403           *)
(* FORBIDDEN and the order is left as it was; the owner and any admin are   *)
(* let through.                                                             *)
C4_OwnerOrAdmin ==
  (/\ resp.op \in { "getOrder", "patchOrder" }
   /\ resp.ran
   /\ OrderAsked # {}
   /\ resp.op = "patchOrder" => resp.req.body.status \in
        { "created", "in_progress", "completed", "cancelled" })
  => \A o \in OrderAsked :
       IF o.user_id = resp.user.id \/ HoldsAdmin(resp.user)
       THEN /\ resp.status = 200
            /\ resp.data[1].id = o.id
            /\ resp.op = "patchOrder" => o.status = resp.req.body.status
       ELSE resp.status = 403 /\ resp.code = "FORBIDDEN" /\ resp.data = None

\* the administrator patched an order that is alice's
C4_Witness ==
  /\ resp.op = "patchOrder" /\ resp.status = 200 /\ resp.user.id = 1
  /\ \E o \in OrderAsked : o.user_id = 2 /\ o.status = "completed"

\* the operations of the backends that sit behind a guard
ProtectedOps ==
  { "getMe", "patchMe", "listUsers", "createOrder", "getOrder", "listOrders",
    "patchOrder" }

(* C5: a protected operation of a backend runs only when the request's      *)
(* header is a well-formed Bearer header whose token verifies at that       *)
(* backend at that instant, and the identity it runs with is the payload of *)
(* that token, whether or not the request carries the headers the gateway   *)
(* sets; a request that did not verify changes no table.                    *)
C5_BackendVerifiesItself ==
  (resp.op \in ProtectedOps /\ resp.ran) =>
    /\ resp.req.authorization # None
    /\ WellFormedBearer(resp.req.authorization[1])
    /\ Verifies(Credential(resp.req.authorization[1]), resp.at)
    /\ resp.user = Identity(Credential(resp.req.authorization[1]), resp.at)

\* an order created on a request that came straight to the orders service
C5_Witness ==
  /\ resp.op = "createOrder" /\ resp.status = 201 /\ resp.ran
  /\ resp.req.xRequestId = None /\ resp.user.id = 2

\* the outcomes of the three guards for header h at instant t
GuardsAt(h, t) ==
  { verifyJWT("/v1/users/me", h, t), authMiddlewareUsers(h, t),
    authMiddlewareOrders(h, t) }

(* C6: the token a login returns is accepted by the guard of the gateway,   *)
(* of the users service and of the orders service at the instant of the     *)
(* login, and is refused by all three with 403 AUTH_INVALID_TOKEN at every  *)
(* instant later than the login by more than two hours.                     *)
C6_TokenLifetime ==
  (resp.op = "login" /\ resp.status = 200) =>
    LET h == Bearer(resp.data[1].token)
    IN  /\ \A g \in GuardsAt(h, resp.at) : g.next
        /\ \A d \in 1..MaxLate :
             \A g \in GuardsAt(h, resp.at + 2 * 60 * 60 + d) :
               ~g.next /\ g.status = 403 /\ g.code = "AUTH_INVALID_TOKEN"

\* a login answered with a token after the clock has moved
C6_Witness ==
  resp.op = "login" /\ resp.status = 200 /\ resp.at > 0 /\ resp.data # None

(* C7: on a protected path the gateway's guard decides as the guard of the  *)
(* users service and the guard of the orders service decide for the same    *)
(* header at the same instant: the same identity, or the same status and    *)
(* the same AUTH_* code.                                                    *)
C7_SameGuardEverywhere ==
  GatewaySawProtected =>
    LET u == authMiddlewareUsers(gw.req.authorization, gw.at)
        o == authMiddlewareOrders(gw.req.authorization, gw.at)
    IN  /\ u = o
        /\ u.next <=> gw.guard = "accepted"
        /\ u.next => gw.user = u.user
        /\ ~u.next => gw.outcome = "rejected" /\ gw.status = u.status /\ gw.code = u.code

\* the three agree on accepting alice's token
C7_Witness ==
  /\ GatewaySawProtected /\ gw.guard = "accepted"
  /\ gw.user.email = "alice@example.com"

UniqueEmails == \A r, q \in users : r.email = q.email => r = q

\* a step in which a suspended registration sends its INSERT
RegistrationSettles ==
  BagCardinality(pending') < BagCardinality(pending) =>
    LET email == resp'.req.email
    IN  \/ /\ resp'.status = 200
           /\ ~\E r \in users : r.email = email
           /\ \E r \in users' : r.email = email /\ r \notin users /\ users' = users \cup { r }
        \/ /\ resp'.status = 400 /\ resp'.code = "USER_EXISTS"
           /\ \E r \in users : r.email = email
           /\ users' = users

(* C9: no two user records ever hold the same email, and a valid            *)
(* registration, however it interleaves with others of the same email,      *)
(* either creates the one record of that email and is answered 200, or is   *)
(* answered 400 USER_EXISTS because a record of that email is there and     *)
(* creates none; what tells the two apart is the outcome of the INSERT.     *)
C9_OneRecordPerEmail == []UniqueEmails /\ [][RegistrationSettles]_vars

\* a registration answered USER_EXISTS while another of the same email is
\* still in flight
C9_Witness ==
  /\ resp.op = "register" /\ resp.status = 400 /\ resp.code = "USER_EXISTS"
  /\ \E c \in BagToSet(pending) : c.email = resp.req.email

\* the rows of the email the last login named
LoginRows == { r \in users : r.email = resp.req.email }

(* C10: a login of an unknown email is answered 401 NOT_FOUND and a login   *)
(* with a wrong password 403 INVALID_CREDENTIALS, both without a token; a   *)
(* token is returned only for a known email with the matching password and  *)
(* carries the id, email and roles of that record; the answer of no other   *)
(* operation holds a token.                                                 *)
C10_TokenOnlyFromLogin ==
  /\ (resp.op = "login" /\ DOMAIN resp.req = { "email", "password" }) =>
       LET match == { r \in LoginRows : r.password = "$2a$10$" \o resp.req.password }
       IN  /\ LoginRows = {} =>
                resp.status = 401 /\ resp.code = "NOT_FOUND" /\ resp.data = None
           /\ (LoginRows # {} /\ match = {}) =>
                resp.status = 403 /\ resp.code = "INVALID_CREDENTIALS" /\ resp.data = None
           /\ match # {} =>
                /\ resp.status = 200 /\ resp.data # None
                /\ \E r \in match :
                     LET p == Identity(resp.data[1].token, resp.at)
                     IN  /\ DOMAIN p = { "id", "email", "roles", "iat", "exp" }
                         /\ p.id = r.id /\ p.email = r.email /\ p.roles = r.roles
  /\ (resp.op = "login" /\ DOMAIN resp.req # { "email", "password" }) => resp.data = None
  /\ (resp.op # "login" /\ resp.data # None) => "token" \notin DOMAIN resp.data[1]

\* alice logs in with the password she changed to
C10_Witness ==
  /\ resp.op = "login" /\ resp.status = 200 /\ resp.req.password = "secret2"
  /\ Identity(resp.data[1].token, resp.at).id = 2

\* the limiter's record of the key of the gateway's last request
HitRecord == limiter[gw.req.ip]

\* the gateway's last request was turned away by the limiter, before the
\* request id, the guard and the proxy
TurnedAway ==
  /\ gw.outcome = "limited" /\ gw.status = 429
  /\ gw.rid = "" /\ gw.guard = "none" /\ gw.user = NoPayload
  /\ gw.target = "" /\ gw.fwd = NoRequest

\* after a request the record counts it, in a window of 60 seconds that holds
\* the instant of the request, and the request passed exactly when the count
\* is within the cap of 200
CountedAndCapped ==
  gw.outcome # "idle" =>
    /\ HitRecord.count >= 1
    /\ gw.at < HitRecord.resetAt /\ HitRecord.resetAt <= gw.at + 60
    /\ IF HitRecord.count > 200 THEN TurnedAway ELSE gw.outcome # "limited"

\* a request inside the key's open window adds one to its count and leaves
\* the window; a request after the window has elapsed opens one with count 1
CountsEachRequest ==
  (gw' # GwIdle /\ limiter' # limiter) =>
    LET old == limiter[gw'.req.ip]
        new == limiter'[gw'.req.ip]
    IN  IF now < old.resetAt
        THEN new.count = old.count + 1 /\ new.resetAt = old.resetAt
        ELSE new.count = 1 /\ new.resetAt = now + 60

InboundId ==
  IF gw.req.xRequestId # None /\ gw.req.xRequestId[1] # "" THEN gw.req.xRequestId
  ELSE IF gw.req.xRequestid # None /\ gw.req.xRequestid[1] # "" THEN gw.req.xRequestid
  ELSE None

(* C12: for every request that reaches the gateway's request-id step, the   *)
(* identifier is the inbound request-id header's value when the request     *)
(* came with one and a newly made, non-empty one otherwise; that one        *)
(* identifier is the X-Request-ID of the response, whatever the guard       *)
(* decided, and the x-request-id of the request sent to the backend.        *)
C12_CorrelationId ==
  (gw.outcome # "idle" /\ gw.outcome # "limited") =>
    /\ gw.rid # ""
    /\ InboundId # None => gw.rid = InboundId[1]
    /\ InboundId = None => gw.rid \notin { "req-42", "req-43" }
    /\ gw.outcome = "forwarded" <=> gw.fwd # NoRequest
    /\ gw.outcome = "forwarded" => gw.fwd.xRequestId = Some(gw.rid)

\* the guard turned a request away and the answer carries the inbound id
C12_Witness ==
  /\ gw.outcome = "rejected" /\ gw.status = 403
  /\ gw.req.xRequestId = Some("req-42") /\ gw.rid = "req-42"

\* the path is the prefix itself or lies under it
Under(path, prefix) ==
  \/ path = prefix
  \/ Len(path) > Len(prefix) /\ SubSeq(path, 1, Len(prefix) + 1) = prefix \o "/"

\* the gateway's last request went to the backend its prefix selects, as one
\* outbound request with the path and the method it came with
RoutedAsReceived ==
  /\ gw.outcome = "forwarded" =>
       /\ gw.target = "users" <=> Under(gw.req.path, "/v1/users")
       /\ gw.target = "orders" <=> Under(gw.req.path, "/v1/orders")
       /\ gw.target \in { "users", "orders" }
       /\ gw.fwd.path = gw.req.path /\ gw.fwd.method = gw.req.method
  /\ (gw.outcome \in { "local", "notfound" }) =>
       /\ ~Under(gw.req.path, "/v1/users") /\ ~Under(gw.req.path, "/v1/orders")
       /\ gw.fwd = NoRequest

(* C13 as stated: every forwarded request goes to the backend of its prefix *)
(* with its path, its method and the Authorization header it came with,     *)
(* unchanged.                                                               *)
C13_AuthorizationUnchanged ==
  /\ RoutedAsReceived
  /\ gw.outcome = "forwarded" => gw.fwd.authorization = gw.req.authorization

(* C13, what the gateway does: every forwarded request goes to the backend *)
(* of its prefix, as one outbound request with its path and its method and  *)
(* with the Authorization value it came with, but a request that came with  *)
(* no Authorization header is forwarded with an empty one.                  *)
C13_ForwardedAsReceived ==
  /\ RoutedAsReceived
  /\ gw.outcome = "forwarded" =>
       gw.fwd.authorization =
         IF gw.req.authorization = None THEN Some("") ELSE gw.req.authorization

\* a login with no Authorization header went to the users service
C13_Witness ==
  /\ gw.outcome = "forwarded" /\ gw.target = "users"
  /\ gw.req.method = "POST" /\ gw.req.path = "/v1/users/login"
  /\ gw.req.authorization = None /\ gw.fwd.authorization = Some("")

\* every order's status is one of the four of the enumeration
StatusInEnumeration ==
  \A o \in orders : o.status \in { "created", "in_progress", "completed", "cancelled" }

\* a row that comes into the table comes with status created, and an
\* authenticated PATCH with a status outside the enumeration is answered 400
\* VALIDATION_ERROR and leaves the table as it was
OrderStatusStep ==
  /\ \A o \in orders' :
       (~\E q \in orders : q.id = o.id) => o.status = "created"
  /\ (/\ resp'.op = "patchOrder" /\ resp'.ran
      /\ resp'.req.body.status \notin { "created", "in_progress", "completed", "cancelled" })
     => /\ resp'.status = 400 /\ resp'.code = "VALIDATION_ERROR"
        /\ orders' = orders

(* C14: every order is created with status created, the status of every     *)
(* order stays one of created, in_progress, completed, cancelled through    *)
(* any sequence of creations and PATCHes, and a PATCH to a status outside   *)
(* the enumeration, such as shipped, is answered 400 VALIDATION_ERROR and   *)
(* leaves the order unchanged.                                              *)
C14_StatusEnumeration == []StatusInEnumeration /\ [][OrderStatusStep]_vars

\* the owner's PATCH of an existing order to shipped was refused
C14_Witness ==
  /\ resp.op = "patchOrder" /\ resp.status = 400 /\ resp.code = "VALIDATION_ERROR"
  /\ resp.req.body.status = "shipped"
  /\ \E o \in orders : ToString(o.id) = resp.req.id /\ o.user_id = resp.user.id

\* the numbers the sampled query values spell
Spelled == ("0" :> 0) @@ ("150" :> 150) @@ ("-3" :> 0 - 3) @@ ("2" :> 2) @@ ("1" :> 1)

\* the last response is that of a listing whose handler got to its pagination
ListingPaged ==
  /\ resp.op \in { "listUsers", "listOrders" } /\ resp.ran
  /\ resp.op = "listUsers" => HoldsAdmin(resp.user)

\* q clamps to v: the default when q is absent, lo when it spells a number
\* below lo, hi when it spells one above hi, else the number it spells
ClampsTo(q, v, dflt, lo, hi) ==
  IF q = None THEN v = dflt
  ELSE q[1] \in DOMAIN Spelled =>
         v = IF Spelled[q[1]] < lo THEN lo
             ELSE IF Spelled[q[1]] > hi THEN hi ELSE Spelled[q[1]]

(* C15 as stated: for every supplied page and limit the listing runs with   *)
(* an effective limit that is an integer in 1..100 (100 above 100, 1 below  *)
(* 1) and an effective page that is an integer of at least 1 (1 below 1).   *)
C15_AlwaysInRange ==
  ListingPaged =>
    /\ resp.status = 200 /\ resp.data # None
    /\ resp.data[1].limit \in 1..100
    /\ resp.data[1].page \in Nat \ { 0 }
    /\ ClampsTo(resp.req.limit, resp.data[1].limit, 20, 1, 100)
    /\ ClampsTo(resp.req.page, resp.data[1].page, 1, 1, resp.data[1].page)
    /\ Len(resp.data[1].items) <= resp.data[1].limit

(* C15, what the listings do: a page and a limit that spell numbers, or are *)
(* absent, are clamped as stated and the listing is answered with at most   *)
(* limit rows; a value that spells no number makes the listing fail with    *)
(* 500 INTERNAL.                                                            *)
C15_ClampsNumbers ==
  ListingPaged =>
    IF \A q \in { resp.req.page, resp.req.limit } : q = None \/ q[1] \in DOMAIN Spelled
    THEN /\ resp.status = 200 /\ resp.data # None
         /\ resp.data[1].limit \in 1..100
         /\ resp.data[1].page \in Nat \ { 0 }
         /\ ClampsTo(resp.req.limit, resp.data[1].limit, 20, 1, 100)
         /\ ClampsTo(resp.req.page, resp.data[1].page, 1, 1, resp.data[1].page)
         /\ Len(resp.data[1].items) <= resp.data[1].limit
    ELSE resp.status = 500 /\ resp.code = "INTERNAL" /\ resp.data = None

\* a listing asked for with limit=150 ran with limit 100
C15_Witness ==
  /\ ListingPaged /\ resp.status = 200
  /\ resp.req.limit = Some("150") /\ resp.data[1].limit = 100
  /\ resp.req.page = Some("0") /\ resp.data[1].page = 1

\* a profile that is read or returned by a PATCH is the caller's own: its
\* id is the id of the verified identity and it is what the table holds
ProfileIsOwn ==
  (resp.op \in { "getMe", "patchMe" } /\ resp.status = 200 /\ resp.data # None) =>
    /\ resp.ran /\ resp.data[1].id = resp.user.id
    /\ \E r \in users :
         r.id = resp.user.id /\ r.email = resp.data[1].email /\ r.name = resp.data[1].name

\* a PATCH /v1/users/me leaves the rows of every other id as they were, adds
\* and removes none, and writes nothing when it was refused; a GET writes
\* nothing
ProfileStep ==
  /\ resp'.op = "patchMe" =>
       /\ { r.id : r \in users' } = { r.id : r \in users }
       /\ \A r \in users : (~resp'.ran \/ r.id # resp'.user.id) => r \in users'
       /\ resp'.status # 200 => users' = users
  /\ resp'.op = "getMe" => users' = users

(* C16: GET and PATCH /v1/users/me act on the one record whose id is the    *)
(* id of the caller's verified identity: a GET returns that record and no   *)
(* other, and a PATCH by an identity leaves the record of every other user  *)
(* unchanged, over every sequence of requests.                              *)
C16_SelfOnlyProfile == []ProfileIsOwn /\ [][ProfileStep]_vars

\* alice changed her own password; the other two records are as they were
C16_Witness ==
  /\ resp.op = "patchMe" /\ resp.status = 200 /\ resp.data # None
  /\ resp.user.id = 2 /\ RootRow \in users /\ BobRow \in users
  /\ AliceRow \notin users

\* the tokens a login at instant 0 gives the three users, each with the
\* identity it was issued for
IssuedAtStart ==
  { << TokRoot, [id |-> 1, email |-> "root@example.com", roles |-> << "user", "admin" >>] >>,
    << TokAlice, [id |-> 2, email |-> "alice@example.com", roles |-> << "user" >>] >>,
    << TokBob, [id |-> 3, email |-> "bob@example.com", roles |-> << "user" >>] >> }

\* the payload carries the identity c, issued at 0 for two hours
CarriesAsIssued(user, c) ==
  /\ DOMAIN user = { "id", "email", "roles", "iat", "exp" }
  /\ user.id = c.id /\ user.email = c.email /\ user.roles = c.roles
  /\ user.iat = 0 /\ user.exp = 2 * 60 * 60

(* C17: a token issued at login is accepted by the guard of the gateway, of *)
(* the users service and of the orders service at every instant before its  *)
(* expiry, with the identity and the roles it was issued with, whatever     *)
(* was done in between, a change of its user's password through PATCH       *)
(* /v1/users/me included; no operation revokes it.                          *)
C17_NoRevocation ==
  /\ \A p \in IssuedAtStart :
       now < 2 * 60 * 60 =>
         \A g \in GuardsAt(Bearer(p[1]), now) : g.next /\ CarriesAsIssued(g.user, p[2])
  /\ \A p \in IssuedAtStart :
       (/\ resp.op \in { "getMe", "patchMe", "listUsers" }
        /\ resp.req.authorization = Bearer(p[1])
        /\ resp.at < 2 * 60 * 60)
       => resp.ran /\ CarriesAsIssued(resp.user, p[2])

\* alice's token of instant 0 reads her profile in the last second of its
\* life, after her password was changed
C17_Witness ==
  /\ resp.op = "getMe" /\ resp.status = 200 /\ resp.at = 2 * 60 * 60 - 1
  /\ resp.req.authorization = Bearer(TokAlice)
  /\ \E r \in users : r.id = 2 /\ r.password = "$2a$10$secret2"

\* the answer the stated order of checks gives the last request for a single
\* order: the guard's, then that of validation (PATCH only), then that of
\* existence, then that of ownership, else 200
AnswerInOrder ==
  LET h == resp.req.authorization
      ok == h # None /\ WellFormedBearer(h[1]) /\ Verifies(Credential(h[1]), resp.at)
      who == Identity(Credential(h[1]), resp.at)
  IN  IF ~ok
        THEN /\ resp.status \in { 401, 403 }
             /\ resp.code \in { "AUTH_REQUIRED", "AUTH_INVALID", "AUTH_INVALID_TOKEN" }
      ELSE IF resp.op = "patchOrder" /\ resp.req.body.status \notin
                { "created", "in_progress", "completed", "cancelled" }
        THEN resp.status = 400 /\ resp.code = "VALIDATION_ERROR"
      ELSE IF OrderAsked = {}
        THEN resp.status = 404 /\ resp.code = "NOT_FOUND"
      ELSE IF \A o \in OrderAsked : o.user_id # who.id /\ ~HoldsAdmin(who)
        THEN resp.status = 403 /\ resp.code = "FORBIDDEN"
      ELSE resp.status = 200 /\ resp.code = ""

\* a request for a single order that is answered with an error leaves the
\* table as it was, and one that is answered 200 changes at most the status
\* of the order it names
SingleOrderStep ==
  resp'.op \in { "getOrder", "patchOrder" } =>
    /\ (resp'.status # 200 \/ resp'.op = "getOrder") => orders' = orders
    /\ \A o \in orders :
         \E q \in orders' :
           /\ q.id = o.id /\ q.user_id = o.user_id /\ q.items = o.items /\ q.total = o.total
           /\ ToString(o.id) # resp'.req.id => q = o
    /\ Cardinality(orders') = Cardinality(orders)

(* C18 as stated: GET and PATCH /v1/orders/:id are answered by the first    *)
(* failing check of the guard, body validation (PATCH), existence and       *)
(* ownership, in this order, with AUTH_*, VALIDATION_ERROR, NOT_FOUND,      *)
(* FORBIDDEN, and with 200 when none fails.                                 *)
C18_FirstFailingCheck ==
  resp.op \in { "getOrder", "patchOrder" } => AnswerInOrder

(* C18, what the handlers do: for an id of the form the store's identifiers *)
(* have, the answer is that of the first failing check in the stated order  *)
(* and an error leaves every order unchanged; for an id of another form the *)
(* lookup itself fails and a request that passed the guard and validation   *)
(* is answered 500 INTERNAL, every order unchanged.                         *)
C18_ChecksInOrder ==
  /\ [](resp.op \in { "getOrder", "patchOrder" } =>
          IF resp.req.id \in { "1", "2" } \/ ~resp.ran
               \/ (resp.op = "patchOrder" /\ resp.status = 400)
          THEN AnswerInOrder
          ELSE resp.status = 500 /\ resp.code = "INTERNAL")
  /\ [][SingleOrderStep]_vars

\* a PATCH to shipped of an order that is not there: validation answers
\* before existence is looked at
C18_Witness ==
  /\ resp.op = "patchOrder" /\ resp.ran /\ OrderAsked = {}
  /\ resp.req.body.status = "shipped"
  /\ resp.status = 400 /\ resp.code = "VALIDATION_ERROR"

\* the ids of the users that hold the admin role
Admins == { r.id : r \in { u \in users : \E i \in DOMAIN u.roles : u.roles[i] = "admin" } }

\* a step keeps the email and the roles of every record and brings new
\* records in with the roles user and nothing else
RolesStep ==
  /\ \A r \in users :
       \E q \in users' : q.id = r.id /\ q.email = r.email /\ q.roles = r.roles
  /\ \A q \in users' :
       (~\E r \in users : r.id = q.id) => q.roles = << "user" >>

(* C19: a record that registration creates has the roles user and nothing   *)
(* else, no request of the API changes the roles or the email of a record   *)
(* that exists, and so the users that hold the admin role are, after any    *)
(* sequence of requests, those that held it in the store at the start.      *)
C19_NoEscalation == [](Admins = { 1 }) /\ [][RolesStep]_vars

\* alice, registered through the API, asked PATCH /v1/users/me for the admin
\* role and was refused
C19_Witness ==
  /\ resp.op = "patchMe" /\ resp.ran /\ resp.user.id = 2
  /\ "roles" \in DOMAIN resp.req.body
  /\ resp.status = 400 /\ resp.code = "VALIDATION_ERROR"
  /\ \E r \in users : r.id = 2 /\ r.roles = << "user" >>

====
